---- MODULE Spec2Model ----
(***************************************************************************)
(* A model of the AudioPlayer widget of src/components/AudioPlayer.tsx.    *)
(*                                                                         *)
(* The widget is a React function component.  Its state lives in useState  *)
(* cells (isPlaying, speedIndex, sound, isLoaded) and in two shared values      *)
(* (progress, containerWidth).  Every handler is a                         *)
(* closure of one render: it reads the state values of the render that     *)
(* created it (the variable "rendered"), and React re-runs the component   *)
(* (action Render) some time after a state cell changed.                   *)
(*                                                                         *)
(* The playback engine (expo-av) is outside the repository.  The widget    *)
(* talks to it through asynchronous calls.  The engine executes a call     *)
(* when it is issued (calls are executed in the order of issue) and its    *)
(* answer travels back in toJS, the one ordered channel from the engine to *)
(* JS, which carries the status callbacks too.  An "await" of the code     *)
(* ends one step of a handler; the step that follows it runs when the      *)
(* answer is delivered (action Deliver).                                   *)
(*                                                                         *)
(* Numbers.  Progress is a fraction: the model stores it multiplied by     *)
(* Scale, so that position/duration and translationX/containerWidth are    *)
(* integers.  The values of a JS number that are not finite are kept       *)
(* (NaN, PosInf, NegInf), as is an undefined durationMillis.               *)
(***************************************************************************)
EXTENDS Integers, Sequences, FiniteSets, TLC

\* ---------------------------------------------------------------- bounds
\* The duration of the audio, in position units (positions are 0..Dur).
Dur == 1
\* The width the layout event reports, in pixels.
Width == 1
\* Engine calls that may be awaiting their answer at one time.
MaxInFlight == 2
\* Status callbacks that may be waiting for delivery at one time.
MaxStatus == 1
\* The render is given Progress values k / FillDen, k in 0..FillDen.
FillDen == 100
\* formatTime is given times of up to MaxMinutes minutes.
MaxMinutes == 2

\* Progress is stored as (fraction * Scale).
Scale == Dur * Width

\* ------------------------------------------------------- JS number values
NaN == 9000001
PosInf == 9000002
NegInf == 9000003
\* status.durationMillis of a source whose duration the engine does not know
Undefined == 9000004
\* progress has no animation running
NoAnim == 9000005
\* no value written by the drag handler yet (history only)
NoValue == 0 - 1

NotNumbers == {NaN, PosInf, NegInf, Undefined}

\* isFinite(x) (lines 71, 145)
IsFinite(x) == x \notin NotNumbers

\* a / b of two JS numbers, as a fraction stored times Scale (lines 70, 160)
Ratio(a, b) ==
    IF a \in {NaN, Undefined} \/ b \in {NaN, Undefined} THEN NaN
    ELSE IF b = 0 THEN (IF a > 0 THEN PosInf ELSE IF a < 0 THEN NegInf ELSE NaN)
    ELSE (a * Scale) \div b

\* x + y of two JS numbers (line 160)
Plus(x, y) ==
    IF x = NaN \/ y = NaN THEN NaN
    ELSE IF x = PosInf THEN (IF y = NegInf THEN NaN ELSE PosInf)
    ELSE IF x = NegInf THEN (IF y = PosInf THEN NaN ELSE NegInf)
    ELSE IF y \in {PosInf, NegInf} THEN y
    ELSE x + y

\* Math.max(0, Math.min(1, x)) (line 161); 1 is stored as Scale
Clamp01(x) ==
    IF x = NaN THEN NaN
    ELSE IF x = PosInf THEN Scale
    ELSE IF x = NegInf THEN 0
    ELSE IF x > Scale THEN Scale
    ELSE IF x < 0 THEN 0
    ELSE x

\* newProgress * status.durationMillis (line 144), in units of 1/Scale
Times(p, d) == IF p \in NotNumbers \/ d \in NotNumbers THEN NaN ELSE p * d

\* ------------------------------------------------------------- constants
\* const SPEEDS = [1, 1.5, 2], the rates times 10
SPEEDS == <<10, 15, 20>>

NoSound == "null"
TheSound == "sound"

\* The values of the useState cells in the first render (lines 28-31).
FirstRender ==
    [isPlaying |-> FALSE, speedIndex |-> 0, sound |-> NoSound, isLoaded |-> FALSE]

\* The cleanup of useEffect(..., []) is the closure of the first render: the
\* dependency list is empty, so the effect never runs again (lines 38-45).
CleanupClosure == FirstRender

NoStatus ==
    [isLoaded |-> FALSE, isPlaying |-> FALSE, positionMillis |-> 0,
     durationMillis |-> Undefined, didJustFinish |-> FALSE]

VARIABLES
    isPlaying,        \* useState(false), line 28
    speedIndex,       \* useState(0), line 29
    sound,            \* useState(null), line 30
    isLoaded,         \* useState(false), line 31
    progress,         \* useSharedValue(0), line 32: progress.value
    anim,             \* the target of the withTiming animation on progress
    containerWidth,   \* useSharedValue(0), line 33
    ctxStartX,        \* ctx.startX of the gesture handler, line 157
    dragging,         \* a pan gesture is active (between onStart and onEnd)
    rendered,         \* the state values the handlers of the last render hold
    mounted,          \* the component is mounted
    eLoaded,          \* engine: the sound is loaded
    ePlaying,         \* engine: the sound is playing
    eRate,            \* engine: the rate in use, times 10
    eDuration,        \* engine: durationMillis of the loaded sound
    toJS,             \* answers and status callbacks not yet delivered, in order
    view,             \* what the render draws: the bars and the time text
    last,             \* history: the step taken last
    hist              \* history: what the claims need to remember

\* every variable but view
widgetVars == <<isPlaying, speedIndex, sound, isLoaded, progress,
                anim, containerWidth, ctxStartX, dragging, rendered, mounted,
                eLoaded, ePlaying, eRate, eDuration, toJS, last, hist>>

vars == <<isPlaying, speedIndex, sound, isLoaded, progress,
          anim, containerWidth, ctxStartX, dragging, rendered, mounted,
          eLoaded, ePlaying, eRate, eDuration, toJS, view, last, hist>>

uiVars == <<isPlaying, speedIndex, sound, isLoaded>>
sharedVars == <<progress, anim, containerWidth, ctxStartX, dragging>>
engineVars == <<eLoaded, ePlaying, eRate, eDuration>>

\* ---------------------------------------------------------------- history
\* last names the step taken last, for the steps the claims speak about:
\*   "playFailed" togglePlay, called to play, ended in its catch block
\*   "escaped"    a rejected call was not caught
\*   "finished"   a status callback reported didJustFinish
\*   "ignored"    a status callback of a sound that is not loaded was
\*                delivered, which said isPlaying or didJustFinish
\*   "other"      any other step
\* hist remembers
\*   loadFailed        loadAudio ended in its catch block
\*   triedAfterFail    the play button was pressed or a drag was released
\*                     after that
\*   dragValue         the value the drag handler wrote last in the gesture
\*                     that is active; NoValue before its first write and
\*                     after a status callback that reported didJustFinish
\*   reset             a status callback reported didJustFinish, and since
\*                     then no play command was given, no gesture started
\*                     or moved, and no status callback of a playing sound
\*                     wrote Progress
\*   unmountedLoading  the component was unmounted before loadAudio ended
Other == "other"

\* ---------------------------------------------------------------- messages
\* type: "resp" the answer to a call, "status" a status callback, "none"
\* kind: the function that made the call; c: the values of its closure that
\* the rest of the function reads; arg: the argument of the call;
\* dv (history): the value the drag handler wrote last before a seek
Msg(type, kind, call, c, arg, dv, ok, st) ==
    [type |-> type, kind |-> kind, call |-> call, c |-> c, arg |-> arg,
     dv |-> dv, ok |-> ok, st |-> st]

Call(kind, call, c, arg, dv) == Msg("call", kind, call, c, arg, dv, TRUE, NoStatus)

NoCall == Msg("none", "", "", FirstRender, 0, NoValue, TRUE, NoStatus)

StatusMsg(st) == Msg("status", "", "", FirstRender, 0, NoValue, TRUE, st)

Responses == {i \in DOMAIN toJS : toJS[i].type = "resp"}
Statuses == {i \in DOMAIN toJS : toJS[i].type = "status"}

\* the engine calls whose answer the widget has not seen yet
InFlight == Cardinality(Responses)

CanCall == InFlight < MaxInFlight

\* the state values a render hands to its handlers
Current ==
    [isPlaying |-> isPlaying, speedIndex |-> speedIndex, sound |-> sound,
     isLoaded |-> isLoaded]

\* a state setter called after unmount changes nothing
SetState(cur, new) == IF mounted THEN new ELSE cur

\* ------------------------------------------------------------ the engine
\* what getStatusAsync answers, and what a status callback carries
EngineStatusOf(pos, fin) ==
    [isLoaded |-> eLoaded, isPlaying |-> ePlaying, positionMillis |-> pos,
     durationMillis |-> eDuration, didJustFinish |-> fin]

\* The answer to call m, which the engine accepts (ok) or rejects.
Answer(m, ok) ==
    Msg("resp", m.kind, m.call, m.c, m.arg, m.dv, ok,
        IF ok /\ m.call = "getStatusAsync" THEN EngineStatusOf(0, FALSE) ELSE NoStatus)

\* The engine executes call m; a rejected call changes nothing in it.
\*   getStatusAsync (101, 141), pauseAsync (106), setRateAsync (109, 130),
\*   playAsync (110), setPositionAsync (146), unloadAsync (42)
EngineDoes(m, ok) ==
    /\ eLoaded' = IF ok /\ m.call = "unloadAsync" THEN FALSE ELSE eLoaded
    /\ ePlaying' = IF ok /\ m.call = "playAsync" THEN TRUE
                   ELSE IF ok /\ m.call \in {"pauseAsync", "unloadAsync"} THEN FALSE
                   ELSE ePlaying
    /\ eRate' = IF ok /\ m.call = "setRateAsync" THEN m.arg ELSE eRate
    /\ UNCHANGED eDuration

\* toJS after the widget issued call m (none when m = NoCall)
Issued(q, m, ok) == IF m = NoCall THEN q ELSE Append(q, Answer(m, ok))

\* -------------------------------------------------------------- the view
\* What the component draws of Progress and of a time (lines 184-237).  The
\* view is no state of the widget: no handler reads it.  It is computed by
\* two pure functions, which are applied here to values given to them.
\*   what    "bars": the waveform is drawn for Progress p / FillDen
\*           "time": formatTime is applied to ms
\*   filled  the indices of the bars drawn in the fill colour
\*   text    the text formatTime returned
NoView ==
    [what |-> "none", p |-> 0, ms |-> 0, filled |-> {}, text |-> "",
     drawn |-> FALSE]

\* Array.from({ length: 50 }, ...)  (line 24): waveformData.length
WaveformLength == 50

\* mutant: a bar is filled only when index / length is below Progress
BarFilledBelow(index, length, p) == index * FillDen < p * length

\* (index / waveformData.length) <= progress.value  (line 205), with
\* progress.value = p / FillDen
BarFilled(index, length, p) == index * FillDen <= p * length

\* waveformData.map((height, index) => ...)  (lines 198-212)
FilledBars(p) ==
    {index \in 0..(WaveformLength - 1) : BarFilled(index, WaveformLength, p)}

\* !x of a JS number or undefined
Falsy(x) == x \in {0, NaN, Undefined}

\* x <= 0: false when x is NaN or undefined
LeqZero(x) == x = NegInf \/ (IsFinite(x) /\ x <= 0)

\* Math.floor(x / k), k > 0
FloorDiv(x, k) ==
    IF IsFinite(x) THEN x \div k ELSE IF x = Undefined THEN NaN ELSE x

\* x % k of a JS number x >= 0: NaN when x is not finite
Mod(x, k) == IF IsFinite(x) THEN x % k ELSE NaN

\* x < k: false when x is NaN
LessThan(x, k) == x = NegInf \/ (IsFinite(x) /\ x < k)

\* `${x}` of a JS number
NumberText(x) ==
    IF x = NaN THEN "NaN"
    ELSE IF x = PosInf THEN "Infinity"
    ELSE IF x = NegInf THEN "-Infinity"
    ELSE ToString(x)

\* formatTime (lines 173-181)
FormatTime(milliseconds) ==
    IF Falsy(milliseconds) \/ LeqZero(milliseconds) THEN "0:00"
    ELSE LET totalSeconds == FloorDiv(milliseconds, 1000)
             minutes == FloorDiv(totalSeconds, 60)
             seconds == Mod(totalSeconds, 60)
         IN  NumberText(minutes) \o ":"
                 \o (IF LessThan(seconds, 10) THEN "0" ELSE "")
                 \o NumberText(seconds)

\* ------------------------------------------------------------------ Init
\* The state after the first render and its mount effect: loadAudio() has run
\* to its await of Audio.Sound.createAsync, which the engine accepts, with a
\* known or an unknown duration, or rejects (lines 38-39, 47-54).
LoadCall == Call("loadAudio", "createAsync", FirstRender, 0, NoValue)

Mounting ==
    /\ isPlaying = FirstRender.isPlaying
    /\ speedIndex = FirstRender.speedIndex
    /\ sound = FirstRender.sound
    /\ isLoaded = FirstRender.isLoaded
    /\ progress = 0
    /\ anim = NoAnim
    /\ containerWidth = 0
    /\ ctxStartX = 0
    /\ dragging = FALSE
    /\ rendered = FirstRender
    /\ mounted = TRUE
    /\ eLoaded \in BOOLEAN
    /\ ePlaying = FALSE
    /\ eRate = SPEEDS[1]
    /\ eDuration \in (IF eLoaded THEN {Dur, Undefined} ELSE {Undefined})
    /\ toJS = <<Msg("resp", "loadAudio", "createAsync", FirstRender, 0, NoValue,
                    eLoaded, NoStatus)>>
    /\ last = Other
    /\ hist = [loadFailed |-> FALSE, dragValue |-> NoValue, reset |-> FALSE,
               unmountedLoading |-> FALSE, triedAfterFail |-> FALSE]

Init == Mounting /\ view = NoView

\* ------------------------------------------------ the code's decisions
\* (a definition named "mutant" is not the code: it is the slip that the
\* claim named with it would catch)

\* mutant: the guard is missing
NotReadyNever(c) == FALSE

\* if (!sound || !isLoaded) return;  (lines 95, 124, 138)
NotReady(c) == c.sound = NoSound \/ ~c.isLoaded

\* mutant: the speed button is rendered whatever isPlaying is
SpeedButtonAlways(c) == TRUE

\* {isPlaying ? <Pressable onPress={toggleSpeed}> : <Image>}  (lines 225-234)
SpeedButtonShown(c) == c.isPlaying

\* (speedIndex + 1) % SPEEDS.length  (line 127)
NextSpeedIndex(i) == (i + 1) % Len(SPEEDS)

\* SPEEDS[i]  (lines 109, 130); the code's index is 0-based
Speed(i) == SPEEDS[i + 1]

\* mutant: the catch block sets isPlaying true
CatchPlayingOn(cur) == TRUE

\* mutant: the catch block only logs
CatchPlayingKept(cur) == cur

\* catch (error) { setIsPlaying(false) }  (lines 116-119)
CatchPlaying(cur) == FALSE

\* mutant: didJustFinish leaves isPlaying as it is
FinishPlayingKept(cur) == cur

\* if (status.didJustFinish) setIsPlaying(false)  (line 80)
FinishPlaying(cur) == FALSE

\* mutant: didJustFinish only starts the animation to 0
FinishProgressKept(p) == p

\* progress.value = 0  (line 81)
FinishProgress(p) == 0

\* status.positionMillis / status.durationMillis  (line 70)
StatusProgress(st) == Ratio(st.positionMillis, st.durationMillis)

\* newProgress * status.durationMillis  (line 144)
SeekPosition(p, d) == Times(p, d)

\* ctx.startX + event.translationX / containerWidth.value, clamped (160-161)
DragProgress(startX, translationX, width) ==
    Clamp01(Plus(startX, Ratio(translationX, width)))

\* every await of the component is inside a try block, but the unloadAsync()
\* of the effect cleanup, which is neither awaited nor caught (line 42)
InTry(m) == m.call # "unloadAsync"

\* ----------------------------------------------------------- user, React
\* <Pressable onPress={togglePlay}>: togglePlay up to its first await
\* (lines 94-101)
TogglePlayCall == Call("togglePlay", "getStatusAsync", rendered, 0, NoValue)

TapPlay(ok) ==
    /\ mounted
    /\ NotReady(rendered) \/ CanCall
    /\ LET m == IF NotReady(rendered) THEN NoCall ELSE TogglePlayCall IN
       /\ EngineDoes(m, ok)
       /\ toJS' = Issued(toJS, m, ok)
    /\ last' = Other
    /\ hist' = [hist EXCEPT
                   !.reset = IF NotReady(rendered) \/ rendered.isPlaying THEN @ ELSE FALSE,
                   !.triedAfterFail = hist.loadFailed]
    /\ UNCHANGED <<uiVars, sharedVars, rendered, mounted, view>>

\* <Pressable onPress={toggleSpeed}>, rendered only while isPlaying:
\* toggleSpeed up to its await (lines 123-131)
ToggleSpeedCall ==
    Call("toggleSpeed", "setRateAsync", FirstRender,
         Speed(NextSpeedIndex(rendered.speedIndex)), NoValue)

TapSpeed(ok) ==
    /\ mounted
    /\ SpeedButtonShown(rendered)
    /\ NotReady(rendered) \/ ~rendered.isPlaying \/ CanCall
    /\ speedIndex' = IF NotReady(rendered) THEN speedIndex
                     ELSE NextSpeedIndex(rendered.speedIndex)
    /\ LET m == IF ~NotReady(rendered) /\ rendered.isPlaying
                THEN ToggleSpeedCall ELSE NoCall IN
       /\ EngineDoes(m, ok)
       /\ toJS' = Issued(toJS, m, ok)
    /\ last' = Other
    /\ UNCHANGED <<isPlaying, sound, isLoaded, sharedVars, rendered, mounted, view, hist>>

\* onStart: ctx.startX = progress.value  (lines 156-158)
DragStart ==
    /\ mounted
    /\ ~dragging
    /\ dragging' = TRUE
    /\ ctxStartX' = progress
    /\ last' = Other
    /\ hist' = [hist EXCEPT !.dragValue = NoValue, !.reset = FALSE]
    /\ UNCHANGED <<uiVars, progress, anim, containerWidth, rendered, mounted, view,
                   engineVars, toJS>>

\* onActive: a direct assignment to progress.value, which ends a running
\* animation (lines 159-162)
DragMove(translationX) ==
    /\ mounted
    /\ dragging
    /\ progress' = DragProgress(ctxStartX, translationX, containerWidth)
    /\ anim' = NoAnim
    /\ last' = Other
    /\ hist' = [hist EXCEPT !.dragValue = progress', !.reset = FALSE]
    /\ UNCHANGED <<uiVars, containerWidth, ctxStartX, dragging, rendered,
                   mounted, view, engineVars, toJS>>

\* onEnd: runOnJS(seekAudio)(progress.value); seekAudio up to its first await
\* (lines 163-165, 137-141).  ctx.startX is not read before the next onStart
\* writes it.
SeekAudioCall ==
    Call("seekAudio", "getStatusAsync", FirstRender, progress, hist.dragValue)

DragEnd(ok) ==
    /\ mounted
    /\ dragging
    /\ NotReady(rendered) \/ CanCall
    /\ dragging' = FALSE
    /\ ctxStartX' = 0
    /\ LET m == IF NotReady(rendered) THEN NoCall ELSE SeekAudioCall IN
       /\ EngineDoes(m, ok)
       /\ toJS' = Issued(toJS, m, ok)
    /\ last' = Other
    /\ hist' = [hist EXCEPT !.dragValue = NoValue, !.triedAfterFail = hist.loadFailed]
    /\ UNCHANGED <<uiVars, progress, anim, containerWidth, rendered, mounted, view>>

\* onLayout: containerWidth.value = event.nativeEvent.layout.width (170-172)
Layout ==
    /\ mounted
    /\ containerWidth' = Width
    /\ last' = Other
    /\ UNCHANGED <<uiVars, progress, anim, ctxStartX, dragging, rendered,
                   mounted, view, engineVars, toJS, hist>>

\* React runs the component again: new handlers, closed over the current
\* state (lines 27-35)
Render ==
    /\ mounted
    /\ rendered # Current
    /\ rendered' = Current
    /\ last' = Other
    /\ UNCHANGED <<uiVars, sharedVars, mounted, view, engineVars, toJS, hist>>

\* the animation started by withTiming reaches its target (lines 72, 82)
AnimFrame ==
    /\ anim # NoAnim
    /\ progress' = anim
    /\ anim' = NoAnim
    /\ last' = Other
    /\ UNCHANGED <<uiVars, containerWidth, ctxStartX, dragging, rendered,
                   mounted, view, engineVars, toJS, hist>>

LoadInFlight == \E i \in DOMAIN toJS : toJS[i].call = "createAsync"

\* the component unmounts: the cleanup of the mount effect runs (lines 40-44)
CleanupCall == Call("cleanup", "unloadAsync", FirstRender, 0, NoValue)

Unmount(ok) ==
    /\ mounted
    /\ mounted' = FALSE
    /\ dragging' = FALSE
    /\ ctxStartX' = 0
    /\ LET m == IF CleanupClosure.sound # NoSound THEN CleanupCall ELSE NoCall IN
       /\ EngineDoes(m, ok)
       /\ toJS' = Issued(toJS, m, ok)
    /\ last' = Other
    /\ hist' = [hist EXCEPT !.unmountedLoading = LoadInFlight, !.dragValue = NoValue]
    /\ UNCHANGED <<uiVars, progress, anim, containerWidth, rendered, view>>

\* ------------------------------------------------- the engine's callbacks
CanEmit == Cardinality(Statuses) < MaxStatus

\* the engine reports the position of the sound it is playing (the callback
\* given to createAsync, line 53).  The status of a loaded sound that is not
\* playing and did not just finish is not modelled: onPlaybackStatusUpdate
\* does nothing with it.
EngineStatus(pos) ==
    /\ eLoaded
    /\ ePlaying
    /\ CanEmit
    /\ toJS' = Append(toJS, StatusMsg(EngineStatusOf(pos, FALSE)))
    /\ last' = Other
    /\ UNCHANGED <<uiVars, sharedVars, rendered, mounted, view, engineVars, hist>>

\* playback reaches the end of the sound: the engine stops and reports
\* didJustFinish
EngineFinish ==
    /\ eLoaded
    /\ ePlaying
    /\ CanEmit
    /\ ePlaying' = FALSE
    /\ toJS' = Append(toJS,
                      StatusMsg([EngineStatusOf(Dur, TRUE) EXCEPT !.isPlaying = FALSE]))
    /\ last' = Other
    /\ UNCHANGED <<uiVars, sharedVars, rendered, mounted, view, eLoaded, eRate,
                   eDuration, hist>>

\* a status of a sound that is not loaded ({isLoaded: false}), whatever its
\* other fields say
EngineNotLoaded(playing, finished) ==
    /\ ~eLoaded
    /\ CanEmit
    /\ toJS' = Append(toJS, StatusMsg([NoStatus EXCEPT !.isPlaying = playing,
                                                        !.didJustFinish = finished]))
    /\ last' = Other
    /\ UNCHANGED <<uiVars, sharedVars, rendered, mounted, view, engineVars, hist>>

\* --------------------------------------------- the widget, on an answer
\* mutant: didJustFinish is handled without the test of isLoaded
StatusFinishesUnloaded(st) == st.didJustFinish

\* onPlaybackStatusUpdate (lines 66-85)
StatusWrites(st) == st.isLoaded /\ st.isPlaying /\ IsFinite(StatusProgress(st))

StatusFinishes(st) == st.isLoaded /\ st.didJustFinish

OnPlaybackStatusUpdate(st) ==
    /\ isPlaying' = IF StatusFinishes(st)
                    THEN SetState(isPlaying, FinishPlaying(isPlaying))
                    ELSE isPlaying
    /\ progress' = IF StatusFinishes(st) THEN FinishProgress(progress) ELSE progress
    /\ anim' = IF StatusFinishes(st) THEN 0
               ELSE IF StatusWrites(st) THEN StatusProgress(st)
               ELSE anim
    /\ hist' = [hist EXCEPT !.reset = IF StatusFinishes(st) THEN TRUE
                                      ELSE IF StatusWrites(st) THEN FALSE
                                      ELSE @,
                             !.dragValue = IF StatusFinishes(st) THEN NoValue ELSE @]
    /\ UNCHANGED <<speedIndex, sound, isLoaded>>

\* loadAudio after its await (lines 55-62)
AfterLoad(m) ==
    /\ sound' = IF m.ok THEN SetState(sound, TheSound) ELSE sound
    /\ isLoaded' = IF m.ok THEN SetState(isLoaded, TRUE) ELSE isLoaded
    /\ hist' = [hist EXCEPT !.loadFailed = ~m.ok]
    /\ UNCHANGED <<isPlaying, speedIndex, progress, anim>>

\* mutant: togglePlay starts playback without setting the rate
TogglePlayNextNoRate(m) ==
    IF ~m.ok THEN ""
    ELSE IF m.call = "getStatusAsync"
         THEN (IF ~m.st.isLoaded THEN ""
               ELSE IF m.c.isPlaying THEN "pauseAsync" ELSE "playAsync")
    ELSE ""

\* the call togglePlay makes next, "" when it makes none (lines 104-115)
TogglePlayNext(m) ==
    IF ~m.ok THEN ""
    ELSE IF m.call = "getStatusAsync"
         THEN (IF ~m.st.isLoaded THEN ""
               ELSE IF m.c.isPlaying THEN "pauseAsync" ELSE "setRateAsync")
    ELSE IF m.call = "setRateAsync" THEN "playAsync"
    ELSE ""

\* togglePlay after an await (lines 101-119)
AfterTogglePlay(m) ==
    /\ isPlaying' = IF ~m.ok THEN SetState(isPlaying, CatchPlaying(isPlaying))
                    ELSE IF m.call = "pauseAsync" THEN SetState(isPlaying, FALSE)
                    ELSE IF m.call = "playAsync" THEN SetState(isPlaying, TRUE)
                    ELSE isPlaying
    /\ UNCHANGED <<speedIndex, sound, isLoaded, progress, anim, hist>>

\* mutant: seekAudio tests neither the duration nor the new position
SeekIssuesUnchecked(m) == m.ok /\ m.call = "getStatusAsync" /\ m.st.isLoaded

\* seekAudio issues setPositionAsync (lines 141-147)
SeekIssues(m) ==
    /\ m.ok
    /\ m.call = "getStatusAsync"
    /\ m.st.isLoaded
    /\ m.st.durationMillis # Undefined
    /\ IsFinite(SeekPosition(m.arg, m.st.durationMillis))

\* the call the function that awaited answer m makes next
NextCallOf(m) ==
    IF m.kind = "togglePlay" /\ TogglePlayNext(m) # ""
    THEN Call("togglePlay", TogglePlayNext(m), m.c,
              IF TogglePlayNext(m) = "setRateAsync" THEN Speed(m.c.speedIndex) ELSE 0,
              NoValue)
    ELSE IF m.kind = "seekAudio" /\ SeekIssues(m)
    THEN Call("seekAudio", "setPositionAsync", m.c,
              SeekPosition(m.arg, m.st.durationMillis), m.dv)
    ELSE NoCall

\* The oldest answer or status callback is delivered to the widget: the
\* status callback runs, or the function that awaited the answer runs on to
\* its next await or to its end.
\*   toggleSpeed (lines 130-134), seekAudio (lines 141-152) and the cleanup
\*   (line 42) change no state after their await.
Deliver(ok) ==
    /\ toJS # <<>>
    /\ LET m == Head(toJS) IN
       /\ IF m.type = "status" THEN OnPlaybackStatusUpdate(m.st)
          ELSE IF m.kind = "loadAudio" THEN AfterLoad(m)
          ELSE IF m.kind = "togglePlay" THEN AfterTogglePlay(m)
          ELSE UNCHANGED <<uiVars, progress, anim, hist>>
       /\ EngineDoes(NextCallOf(m), ok)
       /\ toJS' = Issued(Tail(toJS), NextCallOf(m), ok)
       /\ last' = IF m.type = "status"
                  THEN (IF StatusFinishes(m.st) THEN "finished"
                        ELSE IF ~m.st.isLoaded /\ (m.st.isPlaying \/ m.st.didJustFinish)
                        THEN "ignored"
                        ELSE Other)
                  ELSE IF ~m.ok /\ ~InTry(m) THEN "escaped"
                  ELSE IF ~m.ok /\ m.kind = "togglePlay" /\ ~m.c.isPlaying
                  THEN "playFailed"
                  ELSE Other
    /\ UNCHANGED <<containerWidth, ctxStartX, dragging, rendered, mounted, view>>

\* ------------------------------------------------------------------ Next
\* The whole program: every handler, the engine and React.
Next ==
    \/ \E ok \in BOOLEAN : TapPlay(ok)
    \/ \E ok \in BOOLEAN : TapSpeed(ok)
    \/ DragStart
    \/ \E t \in (0 - Width)..Width : DragMove(t)
    \/ \E ok \in BOOLEAN : DragEnd(ok)
    \/ Layout
    \/ Render
    \/ AnimFrame
    \/ \E ok \in BOOLEAN : Unmount(ok)
    \/ \E pos \in 0..Dur : EngineStatus(pos)
    \/ EngineFinish
    \/ \E playing, finished \in BOOLEAN : EngineNotLoaded(playing, finished)
    \/ \E ok \in BOOLEAN : Deliver(ok)

Spec == Init /\ [][Next]_vars

\* The specifications below take their steps from Next: each of their
\* behaviours is a behaviour of Spec.

\* Playback: the play and the speed button, with up to MaxInFlight commands
\* running at a time, playback reaching the end, and React's renders.
NextPlay ==
    \/ \E ok \in BOOLEAN : TapPlay(ok)
    \/ \E ok \in BOOLEAN : TapSpeed(ok)
    \/ Render
    \/ EngineFinish
    \/ \E playing, finished \in BOOLEAN : EngineNotLoaded(playing, finished)
    \/ \E ok \in BOOLEAN : Deliver(ok)

SpecPlay == Init /\ [][NextPlay]_vars

\* Progress: the pan gesture, the layout, the status callbacks of a playing
\* sound and the animation of progress.  The user gives one command (play,
\* pause, seek) at a time.
NextDrag ==
    \/ InFlight = 0 /\ \E ok \in BOOLEAN : TapPlay(ok)
    \/ DragStart
    \/ \E t \in (0 - Width)..Width : DragMove(t)
    \/ InFlight = 0 /\ \E ok \in BOOLEAN : DragEnd(ok)
    \/ Layout
    \/ Render
    \/ AnimFrame
    \/ \E pos \in 0..Dur : EngineStatus(pos)
    \/ EngineFinish
    \/ \E ok \in BOOLEAN : Deliver(ok)

SpecDrag == Init /\ [][NextDrag]_vars

\* The life of the component: load, use and unmount.  The user gives one
\* command at a time.
NextLife ==
    \/ InFlight = 0 /\ \E ok \in BOOLEAN : TapPlay(ok)
    \/ InFlight = 0 /\ \E ok \in BOOLEAN : TapSpeed(ok)
    \/ DragStart
    \/ InFlight = 0 /\ \E ok \in BOOLEAN : DragEnd(ok)
    \/ Render
    \/ \E ok \in BOOLEAN : Unmount(ok)
    \/ \E pos \in 0..Dur : EngineStatus(pos)
    \/ EngineFinish
    \/ \E playing, finished \in BOOLEAN : EngineNotLoaded(playing, finished)
    \/ \E ok \in BOOLEAN : Deliver(ok)

SpecLife == Init /\ [][NextLife]_vars

\* The view: the two pure functions of the render, applied to one value
\* each.  Progress is given as k / FillDen; a time is a number of
\* milliseconds, positive, zero or negative, or a JS value that is no finite
\* number.
PositiveTimes ==
    {m * 60000 + sec * 1000 + r :
        m \in 0..MaxMinutes, sec \in {0, 5, 9, 10, 59}, r \in {0, 1, 999}} \ {0}

TimeInputs ==
    {0, NaN, PosInf, NegInf, Undefined} \cup PositiveTimes
        \cup {0 - t : t \in PositiveTimes}

ViewInputs ==
    {[NoView EXCEPT !.what = "bars", !.p = k] : k \in 0..FillDen}
        \cup {[NoView EXCEPT !.what = "time", !.ms = t] : t \in TimeInputs}

InitView == Mounting /\ eLoaded /\ eDuration = Dur /\ view \in ViewInputs

\* the waveform of the render (lines 198-212)
DrawBars ==
    /\ view.what = "bars"
    /\ ~view.drawn
    /\ view' = [view EXCEPT !.filled = FilledBars(view.p), !.drawn = TRUE]
    /\ UNCHANGED widgetVars

\* formatTime(...) of the render (lines 173-181, 220)
DrawTime ==
    /\ view.what = "time"
    /\ ~view.drawn
    /\ view' = [view EXCEPT !.text = FormatTime(view.ms), !.drawn = TRUE]
    /\ UNCHANGED widgetVars

NextView ==
    \/ DrawBars
    \/ DrawTime

SpecView == InitView /\ [][NextView]_vars

\* ---------------------------------------------------------------- claims
\* the call issued by the step, when the step issued one
IssuedCall == toJS'[Len(toJS')]

\* the step issued a call of function kind (a step that issues a call and
\* is not a delivery makes toJS longer by the answer)
Issues(kind) == Len(toJS') = Len(toJS) + 1 /\ IssuedCall.kind = kind

\* the step delivered the answer to a call of function kind: the oldest
\* message has left toJS (a step that is no delivery leaves toJS as it is or
\* makes it longer)
Delivers(kind) ==
    /\ toJS # <<>>
    /\ Head(toJS).type = "resp"
    /\ Head(toJS).kind = kind
    /\ toJS' # toJS
    /\ Len(toJS') <= Len(toJS)

\* the step delivered a status callback
DeliversStatus ==
    /\ toJS # <<>>
    /\ Head(toJS).type = "status"
    /\ toJS' = Tail(toJS)

\* the function that was delivered an answer issued its next call: the
\* oldest message has left toJS and the answer to the call was appended
IssuesNext(kind, call) ==
    /\ Delivers(kind)
    /\ Len(toJS') = Len(toJS)
    /\ IssuedCall.kind = kind
    /\ IssuedCall.call = call

\* C1 (as claimed): while a pan gesture is active (on a widget that knows
\* its width), Progress is what the drag-move handler wrote last: no status
\* callback of a playing sound changes it.
C1_DragExclusive ==
    (dragging /\ hist.dragValue # NoValue /\ containerWidth = Width)
        => progress = hist.dragValue

\* C2 (as claimed): the setPositionAsync call that follows a drag release
\* has the target (Progress last written by the drag) * duration.
C2_SeekTargetIsDragValue ==
    \A i \in DOMAIN toJS :
        (toJS[i].call = "setPositionAsync" /\ IsFinite(toJS[i].dv)
         /\ toJS[i].dv # NoValue /\ containerWidth = Width)
            => toJS[i].arg = SeekPosition(toJS[i].dv, eDuration)

\* C3: when togglePlay, called to play, had one of its engine calls
\* rejected, it ends with the playing flag false, and the rejection is
\* caught.
C3_PlayFailureLeavesPaused ==
    /\ last = "playFailed" => ~isPlaying
    /\ last # "escaped"

C3_Witness == last = "playFailed" /\ ePlaying

C5_UnmountReleases ==
    [][(mounted /\ ~mounted' /\ isLoaded /\ sound # NoSound)
           => Issues("cleanup")]_vars

\* C6 (as claimed): when the component was unmounted while the load was in
\* flight, the engine holds no loaded sound once the load has ended.
C6_NoSessionLeftBehind ==
    (hist.unmountedLoading /\ ~LoadInFlight) => ~eLoaded

\* C7: after the load failed the widget stays unloaded: sound stays null,
\* isLoaded and isPlaying stay false, speedIndex stays 0, and no engine call
\* is issued (none is awaiting its answer); the engine holds no sound.
C7_LoadFailureIsFinal ==
    hist.loadFailed =>
        /\ sound = NoSound /\ ~isLoaded /\ ~isPlaying /\ speedIndex = 0
        /\ InFlight = 0
        /\ ~eLoaded /\ ~ePlaying

C7_Witness == hist.loadFailed /\ hist.triedAfterFail

\* C8: the status callback that reports didJustFinish sets the playing flag
\* false and Progress to 0, and Progress stays 0 until the next play
\* command, gesture or status callback of a playing sound.
C8_FinishResets ==
    /\ last = "finished" => (~isPlaying /\ progress = 0)
    /\ hist.reset => progress = 0

C8_Witness == hist.reset /\ last # "finished" /\ anim = NoAnim /\ containerWidth = Width

\* C9 (as claimed): every speed-cycle command advances the speed index by
\* one modulo 3, also when it follows another before the next render.
C9_EachCommandAdvances ==
    [][Issues("toggleSpeed") => speedIndex' = NextSpeedIndex(speedIndex)]_vars

C11_RejectedRateRollsBack ==
    [][(Delivers("toggleSpeed") /\ ~Head(toJS).ok)
           => Speed(NextSpeedIndex(speedIndex')) = Head(toJS).arg]_vars

\* C12 (as claimed): bar i is filled iff i/N <= p, and floor(p*N) bars are
\* filled whenever p*N is not an integer.
C12_FilledCountIsFloor ==
    (view.what = "bars" /\ view.drawn) =>
        /\ \A i \in 0..(WaveformLength - 1) :
               (i \in view.filled) <=> (i * FillDen <= view.p * WaveformLength)
        /\ (view.p * WaveformLength) % FillDen # 0 =>
               Cardinality(view.filled) = (view.p * WaveformLength) \div FillDen

\* C12 (amended): bar i is filled iff i/N <= p, and floor(p*N) + 1 bars are
\* filled whenever p*N is not an integer: bar 0 is filled for every p.
C12_FilledCountIsFloorPlusOne ==
    (view.what = "bars" /\ view.drawn) =>
        /\ \A i \in 0..(WaveformLength - 1) :
               (i \in view.filled) <=> (i * FillDen <= view.p * WaveformLength)
        /\ (view.p * WaveformLength) % FillDen # 0 =>
               Cardinality(view.filled) = (view.p * WaveformLength) \div FillDen + 1

C12_Witness ==
    /\ view.what = "bars" /\ view.drawn
    /\ (view.p * WaveformLength) % FillDen # 0
    /\ Cardinality(view.filled) > 1
    /\ Cardinality(view.filled) < WaveformLength

\* the text "m:ss" of a positive finite number of milliseconds
TwoDigits(n) == (IF n < 10 THEN "0" ELSE "") \o ToString(n)

\* C13 (as claimed): formatTime returns "0:00" for 0, for every negative
\* and for every non-finite number of milliseconds, and minutes:seconds,
\* the seconds with two digits, for a positive finite one (65000 gives
\* "1:05").
C13_FormatTime ==
    (view.what = "time" /\ view.drawn) =>
        /\ (view.ms \in {0, NaN, PosInf, NegInf} \/ (IsFinite(view.ms) /\ view.ms < 0))
               => view.text = "0:00"
        /\ (IsFinite(view.ms) /\ view.ms > 0)
               => view.text = ToString(view.ms \div 60000) \o ":"
                                  \o TwoDigits((view.ms \div 1000) % 60)
        /\ view.ms = 65000 => view.text = "1:05"

\* C14: togglePlay issues playAsync only when its setRateAsync call, made
\* with SPEEDS[speedIndex], was accepted; the speedIndex it uses is the
\* speed index of the widget when the play button was pressed.
C14_RateBeforePlay ==
    [][/\ IssuesNext("togglePlay", "playAsync")
            => /\ Head(toJS).call = "setRateAsync"
               /\ Head(toJS).ok
               /\ Head(toJS).c = IssuedCall.c
               /\ Head(toJS).arg = Speed(Head(toJS).c.speedIndex)
       /\ (Issues("togglePlay") /\ ~IssuedCall.c.isPlaying)
            => IssuedCall.c.speedIndex = speedIndex]_vars

C14_Witness ==
    /\ eRate = Speed(1)
    /\ \E i \in DOMAIN toJS :
           /\ toJS[i].kind = "togglePlay" /\ toJS[i].call = "playAsync"
           /\ toJS[i].ok /\ toJS[i].c.speedIndex = 1

\* C15: seekAudio issues setPositionAsync only when the sound is loaded, its
\* duration is known and progress * duration is finite, and with that
\* position; no step of seekAudio changes the state of the widget, and a
\* rejected call of seekAudio is caught.
C15_SeekGuarded ==
    [][/\ IssuesNext("seekAudio", "setPositionAsync")
            => /\ eLoaded
               /\ eDuration # Undefined
               /\ IsFinite(Times(Head(toJS).arg, eDuration))
               /\ IssuedCall.arg = Times(Head(toJS).arg, eDuration)
       /\ (Delivers("seekAudio")
             /\ (~eLoaded \/ eDuration = Undefined
                    \/ ~IsFinite(Times(Head(toJS).arg, eDuration))))
            => toJS' = Tail(toJS)
       /\ Delivers("seekAudio") => UNCHANGED <<uiVars, progress, anim>>
       /\ last' # "escaped"]_vars

C15_Witness ==
    /\ isPlaying
    /\ \E i \in DOMAIN toJS :
           /\ toJS[i].kind = "seekAudio"
           /\ toJS[i].call = "setPositionAsync"
           /\ ~toJS[i].ok

\* C16 (as claimed): while the container width is 0, a drag-move leaves
\* Progress as it was when the gesture started.
C16_NoDragBeforeLayout ==
    (dragging /\ containerWidth = 0 /\ hist.dragValue # NoValue)
        => (hist.dragValue = ctxStartX /\ progress = ctxStartX)

\* C17 (as claimed): Progress is a number in [0,1].
C17_ProgressInUnitInterval == progress \in 0..Scale

\* C18: a status callback that says the sound is not loaded leaves
\* Progress (and its animation), the playing flag, the loaded flag, the
\* sound and the speed index as they are, whatever its other fields say.
C18_NotLoadedStatusIgnored ==
    [][(DeliversStatus /\ ~Head(toJS).st.isLoaded)
           => UNCHANGED <<progress, anim, isPlaying, isLoaded, sound, speedIndex>>]_vars

C18_Witness == last = "ignored" /\ progress = 0 /\ anim = NoAnim /\ ~isPlaying

\* C19: the playing flag being true implies that the loaded flag is true
\* and a sound is held; the playing flag becomes true only when togglePlay,
\* called to play, is delivered the answer that playAsync was accepted.
C19_PlayingOnlyByPlay ==
    [][/\ isPlaying' => (isLoaded' /\ sound' # NoSound)
       /\ (~isPlaying /\ isPlaying')
            => /\ Delivers("togglePlay")
               /\ Head(toJS).call = "playAsync"
               /\ Head(toJS).ok
               /\ ~Head(toJS).c.isPlaying]_vars

C19_Witness ==
    /\ isPlaying /\ rendered.isPlaying /\ isLoaded /\ sound = TheSound
    /\ toJS # <<>> /\ Head(toJS).type = "status"

\* C20 (as claimed): when no answer and no status callback is on its way to
\* the widget, the engine playing implies that the playing flag is true.
C20_EnginePlayingImpliesPlaying ==
    (toJS = <<>> /\ ePlaying) => isPlaying

====
